---- MODULE Spec2Model ----
\* The prerendering disk cache of TexTile-Backend: the cache store
\* (src/app/prerendering.py, DiskPrerenderedCacheClass), the request-time
\* read path (custom_document_view, get_xml_passage_or_cache) and the batch
\* generator (src/app/cli.py, _prerender_collection).
EXTENDS Integers, Sequences, FiniteSets, TLC

\* ------------------------------------------------------------------ bounds

\* Operations (served requests and batch passes) started in one behaviour.
MaxOps == 3

\* Operations started in one behaviour of the concurrent specification.
MaxConcOps == 3

\* File system faults and outside changes in one behaviour.
MaxFaults == 1

\* ------------------------------------------------------------------ values

\* Python's None, for an optional request parameter or an absent range end.
None == "None"

DEFAULT_MEDIA_TYPE == "application/xml"

\* The corpus: two citable documents with a navigation, one collection
\* without navigation; every other identifier is unknown.
Documents == {"ms001", "ms002"}
NoNavCollections == {"catalog"}

default_tree(d) == "default"

\* Navigation.references: tree -> ordered reference descriptors (identifiers).
NavReferences(d) == [t \in {"default"} |-> <<"p1", "p2">>]

\* Navigation.paths: tree -> valid reference strings.
NavPaths(d) == [t \in {"default"} |-> {"p1", "p2"}]

\* Navigation.query.all(): the navigations of the corpus, one per document,
\* in the order of the query.
Navigations == <<"ms001", "ms002">>

\* The order in which dict.items() yields the trees of a navigation.
TreeOrder(d) == <<"default">>

\* The two states of the document's file on disk (the corpus can be edited
\* between operations).
Versions == {"v1", "v2"}

\* ------------------------------------------------------- external engines

\* get_xml_passage_as_string: the passage of (ref, end, tree) in the current
\* file of the document, serialised. A passage is a sequence of text units;
\* the edited file has a longer passage. ET.tostring of an element is never
\* the empty string. An empty range end selects the single reference, as
\* an absent one does.
Extract(d, ref, end, tree, ver) ==
    LET e == IF end = "" THEN None ELSE end IN
    IF ver = "v1"
    THEN << <<"xml", d, tree, ref, e, "v1">> >>
    ELSE << <<"xml", d, tree, ref, e, "v2">>, <<"xml", d, tree, ref, e, "v2+">> >>

\* get_transformed with the configured media_transformer: the stylesheet wraps
\* the passage in the rendered-tei element, so the body is the passage behind
\* a media-specific head.
Transform(media, passage) == << <<"rendered", media>> >> \o passage

\* Response mimetype of a transformed passage: transformer.mapping.get(media, media)
\* with the empty mapping of media_transformer.
Mimetype(media) == media

\* ------------------------------------------------------------ file model

\* A file is absent or holds a sequence of units. json.dump writes the
\* envelope {"content": <content>}: an opening unit, the content units, a
\* closing unit.
\* A file whose permissions deny the process exists, and every open of it
\* fails with PermissionError, an IOError.
Absent == [exists |-> FALSE, data |-> <<>>, denied |-> FALSE]
File(data) == [exists |-> TRUE, data |-> data, denied |-> FALSE]
Denied == [exists |-> TRUE, data |-> <<>>, denied |-> TRUE]

LBrace == <<"{\"content\": \"">>
RBrace == <<"\"}">>
\* Units only a foreign writer can leave in a cache file.
EmptyObject == <<"{}">>
JsonNumber == <<"0">>
BadByte == <<"\\xff">>

\* The zero byte that fills the gap when a write lands beyond the end of file.
Hole == <<"\\0">>

Structural == {LBrace, RBrace, EmptyObject, JsonNumber, BadByte, Hole}

\* A dump that loses the first unit of the content.
JsonDumpTail(content) ==
    <<LBrace>> \o (IF content = <<>> THEN <<>> ELSE Tail(content)) \o <<RBrace>>

JsonDump(content) == <<LBrace>> \o content \o <<RBrace>>

\* Optional[str]
NoneStr == [some |-> FALSE, val |-> <<>>]
Some(c) == [some |-> TRUE, val |-> c]

\* A test that takes every cached content for nothing.
TruthyNever(r) == FALSE

\* Python truthiness of an Optional[str]: None and "" are falsy.
Truthy(r) == r.some /\ r.val # <<>>

\* Truthiness of an Optional[str] parameter: None and "" are falsy.
Given(x) == x \notin {None, ""}

\* json.load(f) followed by data.get("content"), on decoded text.
\*   "invalid"   json.JSONDecodeError
\*   "nonobject" valid JSON that is no dict: data.get raises AttributeError
\*   "object"    a dict; content is data.get("content")
JsonLoad(data) ==
    LET n == Len(data) IN
    IF data = <<JsonNumber>> THEN [kind |-> "nonobject", content |-> NoneStr]
    ELSE IF data = <<EmptyObject>> THEN [kind |-> "object", content |-> NoneStr]
    ELSE IF /\ n >= 2
            /\ data[1] = LBrace
            /\ data[n] = RBrace
            /\ \A i \in 2..(n - 1) : data[i] \notin Structural
         THEN [kind |-> "object", content |-> Some(SubSeq(data, 2, n - 1))]
         ELSE [kind |-> "invalid", content |-> NoneStr]

\* ------------------------------------------------------------ cache store

short_sha(s) == <<"sha1", s>>

safe_filename(s) == short_sha(s)

sha_subfolders(identifier) == <<"sha1", identifier>>

\* get_cache_path: the shard directory of the identifier and the file name
\* tree__ref[__end]__media.
get_cache_path(identifier, ref, end, media, tree) ==
    [dir  |-> sha_subfolders(identifier),
     name |-> <<safe_filename(tree), safe_filename(ref)>>
              \o (IF Given(end) THEN <<safe_filename(end)>> ELSE <<>>)
              \o <<safe_filename(media)>>]

\* A cache key as get_cache_path takes it.
Key(identifier, ref, end, media, tree) ==
    [identifier |-> identifier, ref |-> ref, end |-> end, media |-> media, tree |-> tree]

NoKey == Key(None, None, None, None, None)

NoPath == [dir |-> <<>>, name |-> <<>>]

NoKeys == [a |-> NoKey, b |-> NoKey, pa |-> NoPath, pb |-> NoPath, derived |-> 0]

PathOf(k) == get_cache_path(k.identifier, k.ref, k.end, k.media, k.tree)

\* get_cache reading another field of the envelope than the one save_cache
\* writes.
GetCacheReadOtherField(file) ==
    IF ~file.exists \/ file.denied
    THEN [raised |-> FALSE, err |-> "", res |-> NoneStr]
    ELSE IF \E i \in 1..Len(file.data) : file.data[i] = BadByte
    THEN [raised |-> TRUE, err |-> "UnicodeDecodeError", res |-> NoneStr]
    ELSE LET j == JsonLoad(file.data) IN
         CASE j.kind = "nonobject" -> [raised |-> TRUE, err |-> "AttributeError", res |-> NoneStr]
           [] OTHER -> [raised |-> FALSE, err |-> "", res |-> NoneStr]

\* get_cache after path.exists(): open, json.load, data.get("content"), with
\* json.JSONDecodeError and IOError caught.
\*   [raised |-> FALSE, res |-> Optional content] or [raised |-> TRUE, err |-> ...]
GetCacheRead(file) ==
    IF ~file.exists \/ file.denied
    THEN [raised |-> FALSE, err |-> "", res |-> NoneStr]
    ELSE IF \E i \in 1..Len(file.data) : file.data[i] = BadByte
    THEN [raised |-> TRUE, err |-> "UnicodeDecodeError", res |-> NoneStr]
    ELSE LET j == JsonLoad(file.data) IN
         CASE j.kind = "invalid" -> [raised |-> FALSE, err |-> "", res |-> NoneStr]
           [] j.kind = "nonobject" -> [raised |-> TRUE, err |-> "AttributeError", res |-> NoneStr]
           [] OTHER -> [raised |-> FALSE, err |-> "", res |-> j.content]

\* A write(2) of chunk at offset off of an open file: the gap up to off, if
\* any, reads as zero bytes; bytes beyond the chunk stay.
WriteAt(file, off, chunk) ==
    LET old == file.data
        end == off + Len(chunk)
        n   == IF Len(old) > end THEN Len(old) ELSE end
    IN File([i \in 1..n |->
                IF i > off /\ i <= end THEN chunk[i - off]
                ELSE IF i <= Len(old) THEN old[i]
                ELSE Hole])

\* ------------------------------------------------------------- requests

\* The parameters of GET /document/ as document_route reads them.
RefParams == {None, "p1", "p99"}
StartParams == {None, "p1", "p99"}
EndParams == {None, "p2", "p99"}
TreeParams == {None, "default", "nope"}
MediaParams == {None, "html"}

\* media_transformer.supported_media_types: the keys of its stylesheets.
supported_media_types == {"html"}

\* A mediaType parameter for which media_transformer has no stylesheet.
BadMediaParams == {"pdf"}

Request(resource, ref, start, end, tree, media) ==
    [resource |-> resource, ref |-> ref, start |-> start, end |-> end,
     tree |-> tree, media |-> media]

\* Every parameter combination on the document, and one request per way the
\* resource itself can fail.
Requests ==
    {Request("ms001", r, s, e, t, m) :
        r \in RefParams, s \in StartParams, e \in EndParams,
        t \in TreeParams, m \in MediaParams}
    \cup {Request(x, "p1", None, None, None, None) : x \in {None, "catalog", "ghost"}}

\* ref or start
RefOrStart(r) == IF Given(r.ref) THEN r.ref ELSE r.start

\* custom_document_view up to the choice of media: the outcome of the
\* parameter checks.
\*   "reject"  msg_4xx with the given status
\*   "raise"   an exception leaves the view (nav.paths[tree] of an unknown tree)
\*   "full"    the whole document file is returned
\*   "passage" the passage of (ref or start, end) in tree is served as media
Outcome(kind, status, tree, media) ==
    [kind |-> kind, status |-> status, tree |-> tree, media |-> media]

\* The membership test left out.
InPathsAlways(x, paths) == TRUE

\* "x in paths"
InPaths(x, paths) == x \in paths

ValidateRequest(r) ==
    LET tree  == IF Given(r.tree) THEN r.tree ELSE default_tree(r.resource)
        media == IF Given(r.media) THEN r.media ELSE DEFAULT_MEDIA_TYPE
        any   == Given(r.ref) \/ Given(r.start) \/ Given(r.end)
    IN
    IF ~Given(r.resource) THEN Outcome("reject", "4xx", tree, media)
    ELSE IF r.resource \notin (Documents \cup NoNavCollections)
    THEN Outcome("reject", "4xx", tree, media)
    ELSE IF r.resource \in NoNavCollections THEN Outcome("reject", "4xx", tree, media)
    ELSE IF any /\ tree \notin DOMAIN NavReferences(r.resource)
    THEN Outcome("reject", "4xx", tree, media)
    ELSE IF any /\ Given(r.ref) /\ (Given(r.start) \/ Given(r.end))
    THEN Outcome("reject", "400", tree, media)
    ELSE IF any /\ ~Given(r.ref)
            /\ ((Given(r.start) /\ ~Given(r.end)) \/ (Given(r.end) /\ ~Given(r.start)))
    THEN Outcome("reject", "400", tree, media)
    ELSE IF tree \notin DOMAIN NavPaths(r.resource)
    THEN Outcome("raise", "KeyError", tree, media)
    ELSE LET paths == NavPaths(r.resource)[tree] IN
         IF Given(r.start) /\ Given(r.end)
            /\ (~InPaths(r.start, paths) \/ ~InPaths(r.end, paths))
         THEN Outcome("reject", "404", tree, media)
         ELSE IF Given(r.ref) /\ ~InPaths(r.ref, paths)
         THEN Outcome("reject", "404", tree, media)
         ELSE IF ~Given(r.ref) /\ ~Given(r.start)
         THEN Outcome("full", "200", tree, DEFAULT_MEDIA_TYPE)
         ELSE Outcome("passage", "200", tree, media)

\* The cache file of the artifact a passage request asks for, and of its
\* base passage.
ViewKey(r, tree, media) == Key(r.resource, RefOrStart(r), r.end, media, tree)

ViewPath(r, tree, media) == PathOf(ViewKey(r, tree, media))

\* ------------------------------------------------------------ batch jobs

\* The (tree, reference) pairs of a navigation in iteration order.
RECURSIVE PairsFrom(_, _)
PairsFrom(d, k) ==
    IF k > Len(TreeOrder(d)) THEN <<>>
    ELSE LET t == TreeOrder(d)[k]
             refs == NavReferences(d)[t]
         IN [i \in 1..Len(refs) |-> <<t, refs[i]>>] \o PairsFrom(d, k + 1)

Pairs(d) == PairsFrom(d, 1)

\* The --media-type lists of a generate run.
MediaLists == {<<>>, <<"html">>}

\* The base passage regenerated on every pass.
NeedsBaseAlways(base_content, force_generate) == TRUE

\* The base passage regenerated only when it is missing.
NeedsBaseIgnoresForce(base_content, force_generate) == ~Truthy(base_content)

\* "not base_content or force_generate is True"
NeedsBase(base_content, force_generate) == ~Truthy(base_content) \/ force_generate

\* The artifact regenerated whatever the lookup returned.
NeedsMediaAlways(cached, force_generate) == TRUE

\* The test of the lookup inverted: the artifact regenerated when it is there.
NeedsMediaInverted(cached, force_generate) == cached.some \/ force_generate

\* The artifact regenerated only when it is missing.
NeedsMediaIgnoresForce(cached, force_generate) == ~cached.some

\* "get_cache(...) is None or force_generate is True"
NeedsMedia(cached, force_generate) == ~cached.some \/ force_generate

\* A batch job that caches each reference as a range up to the last one.
BatchKeyRange(d, pair, media) == Key(d, pair[2], "p2", media, pair[1])

BatchKey(d, pair, media) == Key(d, pair[2], None, media, pair[1])

BatchPath(d, pair, media) == PathOf(BatchKey(d, pair, media))

\* ---------------------------------------------------------------- state

Procs == {"web", "batch"}

\* Every cache file a request or a batch job can name in a tree of the
\* navigation, whether or not the tree has the reference.
AllPaths ==
    UNION {{get_cache_path(d, r, e, m, t) :
               r \in ((RefParams \cup StartParams) \ {None}) \cup {"p2"},
               e \in EndParams,
               m \in {DEFAULT_MEDIA_TYPE} \cup (MediaParams \ {None}) \cup BadMediaParams,
               t \in DOMAIN NavReferences(d)} : d \in Documents}

VARIABLES
    disk,          \* the cache directory tree: path -> file
    version,       \* the state of the document's file (collection.filepath)
    useDiskCache,  \* USE_DISK_CACHE == "true"
    pc,            \* where each process is in its handler
    web,           \* the request being served and the view's locals
    bat,           \* the work item being processed and the worker's locals
    ctx,           \* per process: what the current operation has done so far
    sv,            \* per process: the frame of the save_cache call in progress
    last,          \* the previous operation that was served to completion
    nops,          \* operations started
    nfaults,       \* file system faults and outside changes so far
    saved,         \* every (path, envelope) handed to save_cache so far
    grp,           \* the save_cache calls of the latest group of overlapping calls
    kd,            \* two cache keys and the paths get_cache_path gave for them
    run,           \* the generate command under way: its pool, its loop over results
    hits,          \* the cache files for which a lookup has returned content
    root,          \* the cache directory exists
    adm,           \* the clear command: its position, its inputs, its outcome
    pool           \* the worker pool of a generate command and its loop over results

vars == <<disk, version, useDiskCache, pc, web, bat, ctx, sv, last, nops, nfaults, saved,
          grp, kd, run, hits, root, adm, pool>>

EmptyDisk == [p \in AllPaths |-> Absent]

\* The clear command when none is under way, and none has run.
NoAdm == [state |-> "idle", confirm |-> FALSE, answer |-> FALSE, outcome |-> "",
          n |-> 0, cleared |-> 0]

\* No generate command has made its pool.
NoPool == [state |-> "idle", navigations |-> <<>>, workers |-> 0, num_workers |-> 0,
           items |-> <<>>, tasks |-> <<>>, busy |-> <<>>, results |-> <<>>,
           mss |-> 0, pages |-> 0,
           by |-> <<>>, order |-> <<>>, generated |-> 0]

NoRequest == Request(None, None, None, None, None, None)

Response(body, status, mimetype) ==
    [body |-> body, status |-> status, mimetype |-> mimetype]

NoResponse == Response(<<>>, "", "")

WebIdle ==
    [req |-> NoRequest, kind |-> "", tree |-> None, media |-> None,
     passage |-> <<>>, resp |-> NoResponse]

BatIdle ==
    [doc |-> None, media_types |-> <<>>, force_generate |-> FALSE, i |-> 0, j |-> 0,
     base_content |-> NoneStr, rendered_content |-> 0]

\* What an operation has done: calls of the extraction and transformation
\* engines, cache lookups, files opened for writing, the envelopes it handed
\* to save_cache, the exception that ended it, the cache as it was when the
\* operation started (kept when the operations run one after the other), and
\* the path and the file of its last lookup.
FreshCtx(d) ==
    [ext |-> 0, tr |-> 0, reads |-> 0, writes |-> 0, made |-> {}, err |-> "",
     snap |-> d, at |-> None, observed |-> Absent]

NoFrame == [key |-> NoKey, path |-> None, data |-> <<>>, content |-> <<>>, off |-> 0]

\* The frame of save_cache(key, content).
Frame(key, content) ==
    [key |-> key, path |-> PathOf(key), data |-> JsonDump(content), content |-> content,
     off |-> 0]

\* prerender: the options, the work items not yet taken by a worker, the
\* results not yet read by the loop over imap_unordered, the counters of the
\* loop; and the documents whose work item returned or raised.
NoRun ==
    [state |-> "idle", media_types |-> <<>>, force |-> FALSE, queue |-> <<>>,
     results |-> <<>>, mss |-> 0, pages |-> 0, returned |-> {}, failed |-> {}]

NoOp ==
    [kind |-> "none", req |-> NoRequest, media_types |-> <<>>, force_generate |-> FALSE,
     ext |-> 0, tr |-> 0, writes |-> 0, generated |-> 0, emptyAtStart |-> FALSE,
     resp |-> NoResponse]

Init ==
    /\ disk = EmptyDisk
    /\ version = "v1"
    /\ useDiskCache \in BOOLEAN
    /\ pc = [p \in Procs |-> "idle"]
    /\ web = WebIdle
    /\ bat = BatIdle
    /\ ctx = [p \in Procs |-> FreshCtx(EmptyDisk)]
    /\ sv = [p \in Procs |-> NoFrame]
    /\ last = NoOp
    /\ nops = 0
    /\ nfaults = 0
    /\ saved = {}
    /\ grp = {}
    /\ kd = NoKeys
    /\ run = NoRun
    /\ hits = {}
    /\ root = TRUE
    /\ adm = NoAdm
    /\ pool = NoPool

\* The document's file is edited (the corpus changes under the cache).
UpdateDocument ==
    /\ version = "v1"
    /\ version' = "v2"
    /\ UNCHANGED <<disk, useDiskCache, pc, web, bat, ctx, sv, last, nops, nfaults, saved, grp, kd, run, hits, root, adm, pool>>

\* One of the processes has a cache file open for writing.
Writing(ps) == \E q \in ps : pc[q] \in {"save_write", "save_close"}

\* The group of overlapping save_cache calls is over once none of them has
\* its file open any more and an operation returns.
Settled == IF Writing(Procs) THEN grp ELSE {}

\* The files for which a lookup has returned content, after a lookup of path
\* with result g.
Hit(path, g) == IF ~g.raised /\ g.res.some THEN hits \cup {path} ELSE hits

\* One call of DiskPrerenderedCache.get_cache by process p on path.
Lookup(p, path) == GetCacheRead(disk[path])

Looked(p, path) ==
    [ctx EXCEPT ![p].reads = @ + 1, ![p].at = path, ![p].observed = disk[path]]

\* ------------------------------------------------------------- read path

\* The continuation of custom_document_view once the base passage is known:
\* the default media type is answered with the passage, any other goes on to
\* the transformation.
AfterPassage(w, passage) ==
    IF w.media # DEFAULT_MEDIA_TYPE
    THEN [pc |-> "view_transform", web |-> [w EXCEPT !.passage = passage]]
    ELSE [pc |-> "done",
          web |-> [w EXCEPT !.passage = passage,
                            !.resp = Response(passage, "200", "application/xml")]]

\* An exception leaves the view: the request fails with a server error.
WebRaise(err) ==
    /\ pc' = [pc EXCEPT !["web"] = "done"]
    /\ web' = [web EXCEPT !.resp = Response(<<>>, "500", "")]

\* custom_document_view, from its entry to its first cache or engine call:
\* the parameter checks, the whole-document answer, the choice by media type.
StartRequest(r, conc) ==
    LET v == ValidateRequest(r) IN
    /\ pc["web"] = "idle"
    /\ conc \/ pc["batch"] = "idle"
    /\ v.kind = "passage" => nops < (IF conc THEN MaxConcOps ELSE MaxOps)
    /\ nops' = IF v.kind = "passage" THEN nops + 1 ELSE nops
    /\ ctx' = [ctx EXCEPT !["web"] =
                  [FreshCtx(IF conc THEN EmptyDisk ELSE disk)
                      EXCEPT !.err = IF v.kind = "raise" THEN v.status ELSE ""]]
    /\ web' = [req |-> r, kind |-> v.kind, tree |-> v.tree, media |-> v.media,
               passage |-> <<>>,
               resp |-> CASE v.kind = "reject" -> Response(<<>>, v.status, "application/json")
                          [] v.kind = "raise" -> Response(<<>>, "500", "")
                          [] v.kind = "full" ->
                               Response(<< <<"file", r.resource, version>> >>, "200",
                                        DEFAULT_MEDIA_TYPE)
                          [] OTHER -> NoResponse]
    /\ pc' = [pc EXCEPT !["web"] =
                 IF v.kind # "passage" THEN "done"
                 ELSE IF ~useDiskCache THEN "xml_extract"
                 ELSE IF v.media # DEFAULT_MEDIA_TYPE THEN "view_lookup"
                 ELSE "xml_lookup"]
    /\ UNCHANGED <<disk, version, useDiskCache, bat, sv, last, saved, nfaults, grp, kd, run, hits, root, adm, pool>>

\* custom_document_view, the lookup of the transformed artifact
\* ("if cached_content: return Response(cached_content, ...)").
ViewLookup ==
    LET path == ViewPath(web.req, web.tree, web.media)
        g    == Lookup("web", path)
    IN
    /\ pc["web"] = "view_lookup"
    /\ IF g.raised
       THEN /\ WebRaise(g.err)
            /\ ctx' = [Looked("web", path) EXCEPT !["web"].err = g.err]
       ELSE /\ ctx' = Looked("web", path)
            /\ IF Truthy(g.res)
               THEN /\ pc' = [pc EXCEPT !["web"] = "done"]
                    /\ web' = [web EXCEPT !.resp =
                                  Response(g.res.val, "200", Mimetype(web.media))]
               ELSE /\ pc' = [pc EXCEPT !["web"] = "xml_lookup"]
                    /\ web' = web
    /\ UNCHANGED <<disk, version, useDiskCache, bat, sv, last, nops, nfaults, saved, grp, kd, run, root, adm, pool>>
    /\ hits' = Hit(path, g)

\* get_xml_passage_or_cache, the lookup of the base passage.
XmlLookup ==
    LET path == ViewPath(web.req, web.tree, DEFAULT_MEDIA_TYPE)
        g    == Lookup("web", path)
    IN
    /\ pc["web"] = "xml_lookup"
    /\ IF g.raised
       THEN /\ WebRaise(g.err)
            /\ ctx' = [Looked("web", path) EXCEPT !["web"].err = g.err]
       ELSE /\ ctx' = Looked("web", path)
            /\ IF Truthy(g.res)
               THEN LET a == AfterPassage(web, g.res.val) IN
                    /\ pc' = [pc EXCEPT !["web"] = a.pc]
                    /\ web' = a.web
               ELSE /\ pc' = [pc EXCEPT !["web"] = "xml_extract"]
                    /\ web' = web
    /\ UNCHANGED <<disk, version, useDiskCache, bat, sv, last, nops, nfaults, saved, grp, kd, run, root, adm, pool>>
    /\ hits' = Hit(path, g)

\* get_xml_passage_or_cache, the miss: the passage is extracted and returned.
XmlExtract ==
    LET r == web.req
        passage == Extract(r.resource, RefOrStart(r), r.end, web.tree, version)
        a == AfterPassage(web, passage)
    IN
    /\ pc["web"] = "xml_extract"
    /\ ctx' = [ctx EXCEPT !["web"].ext = @ + 1]
    /\ pc' = [pc EXCEPT !["web"] = a.pc]
    /\ web' = a.web
    /\ UNCHANGED <<disk, version, useDiskCache, bat, sv, last, nops, nfaults, saved, grp, kd, run, hits, root, adm, pool>>

\* custom_document_view, the transformation of the base passage and the call
\* of save_cache with the response body (if the disk cache is enabled).
ViewTransform ==
    LET body == Transform(web.media, web.passage) IN
    /\ pc["web"] = "view_transform"
    /\ web.media \in supported_media_types
    /\ ctx' = [ctx EXCEPT !["web"].tr = @ + 1]
    /\ web' = [web EXCEPT !.resp = Response(body, "200", Mimetype(web.media))]
    /\ IF useDiskCache
       THEN /\ pc' = [pc EXCEPT !["web"] = "save_open"]
            /\ sv' = [sv EXCEPT !["web"] =
                         Frame(ViewKey(web.req, web.tree, web.media), body)]
       ELSE /\ pc' = [pc EXCEPT !["web"] = "done"]
            /\ sv' = sv
    /\ UNCHANGED <<disk, version, useDiskCache, bat, last, nops, nfaults, saved, grp, kd, run, hits, root, adm, pool>>

\* What the call of the base class's transform can come to, for a media type
\* without a stylesheet ("return super().transform(media, collection,
\* document)"): a response, of success with the passage or of refusal with a
\* message, or an exception, an HTTP error or any other.
BaseTransformOutcomes == {"passage", "refusal", "http_error", "exception"}

\* custom_document_view, the transformation when the media type has no
\* stylesheet: the answer of the base class is taken as get_transformed's
\* response, stored by save_cache (if the disk cache is enabled) whatever its
\* status, and returned; an exception leaves the view.
ViewTransformBase(o) ==
    LET resp == IF o = "passage"
                THEN Response(web.passage, "200", DEFAULT_MEDIA_TYPE)
                ELSE Response(<< <<"message", web.media>> >>, "4xx", "application/json")
    IN
    /\ pc["web"] = "view_transform"
    /\ web.media \notin supported_media_types
    /\ IF o \in {"passage", "refusal"}
       THEN /\ ctx' = [ctx EXCEPT !["web"].tr = @ + 1]
            /\ web' = [web EXCEPT !.resp = resp]
            /\ IF useDiskCache
               THEN /\ pc' = [pc EXCEPT !["web"] = "save_open"]
                    /\ sv' = [sv EXCEPT !["web"] =
                                 Frame(ViewKey(web.req, web.tree, web.media), resp.body)]
               ELSE /\ pc' = [pc EXCEPT !["web"] = "done"]
                    /\ sv' = sv
       ELSE /\ ctx' = [ctx EXCEPT !["web"].tr = @ + 1, !["web"].err = "UnsupportedMedia"]
            /\ pc' = [pc EXCEPT !["web"] = "done"]
            /\ web' = [web EXCEPT !.resp =
                          IF o = "http_error" THEN Response(<<>>, "4xx", "text/html")
                          ELSE Response(<<>>, "500", "")]
            /\ sv' = sv
    /\ UNCHANGED <<disk, version, useDiskCache, bat, last, nops, nfaults, saved, grp, kd, run, hits, root, adm, pool>>

\* The response leaves the view. A served passage becomes the previous
\* operation (kept when the operations run one after the other).
FinishRequest(conc) ==
    /\ pc["web"] = "done"
    /\ pc' = [pc EXCEPT !["web"] = "idle"]
    /\ last' = IF ~conc /\ web.kind = "passage" /\ web.resp.status = "200"
               THEN [kind |-> "request", req |-> web.req, media_types |-> <<>>,
                     force_generate |-> FALSE, ext |-> ctx["web"].ext,
                     tr |-> ctx["web"].tr, writes |-> ctx["web"].writes,
                     generated |-> 0,
                     emptyAtStart |-> (ctx["web"].snap = EmptyDisk),
                     resp |-> web.resp]
               ELSE last
    /\ web' = WebIdle
    /\ ctx' = [ctx EXCEPT !["web"] = FreshCtx(EmptyDisk)]
    /\ grp' = Settled
    /\ UNCHANGED <<disk, version, useDiskCache, bat, sv, nops, nfaults, saved, kd, run, hits, root, adm, pool>>

\* ---------------------------------------------------------- batch worker

\* Where _prerender_collection goes once the base passage of pair i is
\* settled or media type j - 1 is done: the next media type of the pair, else
\* the next pair, else the return.
Advance(b, j) ==
    IF j <= Len(b.media_types)
    THEN [pc |-> "media_lookup", bat |-> [b EXCEPT !.j = j]]
    ELSE IF b.i < Len(Pairs(b.doc))
    THEN [pc |-> "base_lookup",
          bat |-> [b EXCEPT !.i = @ + 1, !.j = 0, !.base_content = NoneStr]]
    ELSE [pc |-> "done", bat |-> b]

\* save_cache has returned to its caller: the view returns its response, the
\* worker counts the artifact and goes on.
Return(p) ==
    IF p = "web"
    THEN /\ pc' = [pc EXCEPT ![p] = "done"]
         /\ UNCHANGED <<web, bat>>
    ELSE LET a == Advance([bat EXCEPT !.rendered_content = @ + 1], bat.j + 1) IN
         /\ pc' = [pc EXCEPT ![p] = a.pc]
         /\ bat' = a.bat
         /\ web' = web

\* An exception leaves _prerender_collection: the work item fails.
BatRaise(err) ==
    /\ pc' = [pc EXCEPT !["batch"] = "done"]

\* _prerender_collection, from its entry to the first lookup. In a generate
\* command the work item leaves the task queue of the pool.
StartPass(d, medias, force, conc) ==
    /\ pc["batch"] = "idle"
    /\ conc \/ pc["web"] = "idle"
    /\ nops < (IF conc THEN MaxConcOps ELSE MaxOps)
    /\ nops' = nops + 1
    /\ ctx' = [ctx EXCEPT !["batch"] = FreshCtx(IF conc THEN EmptyDisk ELSE disk)]
    /\ bat' = [doc |-> d, media_types |-> medias, force_generate |-> force,
               i |-> 1, j |-> 0, base_content |-> NoneStr, rendered_content |-> 0]
    /\ pc' = [pc EXCEPT !["batch"] = IF Len(Pairs(d)) = 0 THEN "done" ELSE "base_lookup"]
    /\ run' = IF run.state = "running" THEN [run EXCEPT !.queue = Tail(@)] ELSE run
    /\ UNCHANGED <<disk, version, useDiskCache, web, sv, last, saved, nfaults, grp, kd, hits, root, adm, pool>>

\* The lookup of the base passage of pair i.
BaseLookup ==
    LET path == BatchPath(bat.doc, Pairs(bat.doc)[bat.i], DEFAULT_MEDIA_TYPE)
        g    == Lookup("batch", path)
    IN
    /\ pc["batch"] = "base_lookup"
    /\ IF g.raised
       THEN /\ BatRaise(g.err)
            /\ ctx' = [Looked("batch", path) EXCEPT !["batch"].err = g.err]
            /\ bat' = bat
       ELSE /\ ctx' = Looked("batch", path)
            /\ IF NeedsBase(g.res, bat.force_generate)
               THEN /\ pc' = [pc EXCEPT !["batch"] = "base_extract"]
                    /\ bat' = [bat EXCEPT !.base_content = g.res]
               ELSE LET a == Advance([bat EXCEPT !.base_content = g.res], 1) IN
                    /\ pc' = [pc EXCEPT !["batch"] = a.pc]
                    /\ bat' = a.bat
    /\ UNCHANGED <<disk, version, useDiskCache, web, sv, last, nops, nfaults, saved, grp, kd, run, root, adm, pool>>
    /\ hits' = Hit(path, g)

\* The base passage is extracted and handed to save_cache.
BaseExtract ==
    LET pair == Pairs(bat.doc)[bat.i]
        passage == Extract(bat.doc, pair[2], None, pair[1], version)
    IN
    /\ pc["batch"] = "base_extract"
    /\ ctx' = [ctx EXCEPT !["batch"].ext = @ + 1]
    /\ bat' = [bat EXCEPT !.base_content = Some(passage)]
    /\ sv' = [sv EXCEPT !["batch"] =
                 Frame(BatchKey(bat.doc, pair, DEFAULT_MEDIA_TYPE), passage)]
    /\ pc' = [pc EXCEPT !["batch"] = "save_open"]
    /\ UNCHANGED <<disk, version, useDiskCache, web, last, nops, nfaults, saved, grp, kd, run, hits, root, adm, pool>>

\* The lookup of the artifact of pair i in media type j.
MediaLookup ==
    LET path == BatchPath(bat.doc, Pairs(bat.doc)[bat.i], bat.media_types[bat.j])
        g    == Lookup("batch", path)
    IN
    /\ pc["batch"] = "media_lookup"
    /\ IF g.raised
       THEN /\ BatRaise(g.err)
            /\ ctx' = [Looked("batch", path) EXCEPT !["batch"].err = g.err]
            /\ bat' = bat
       ELSE /\ ctx' = Looked("batch", path)
            /\ IF NeedsMedia(g.res, bat.force_generate)
               THEN /\ pc' = [pc EXCEPT !["batch"] = "media_transform"]
                    /\ bat' = bat
               ELSE LET a == Advance(bat, bat.j + 1) IN
                    /\ pc' = [pc EXCEPT !["batch"] = a.pc]
                    /\ bat' = a.bat
    /\ UNCHANGED <<disk, version, useDiskCache, web, sv, last, nops, nfaults, saved, grp, kd, run, root, adm, pool>>
    /\ hits' = Hit(path, g)

\* The base passage is transformed and the result handed to save_cache.
MediaTransform ==
    LET pair == Pairs(bat.doc)[bat.i]
        media == bat.media_types[bat.j]
        transformed_content == Transform(media, bat.base_content.val)
    IN
    /\ pc["batch"] = "media_transform"
    /\ ctx' = [ctx EXCEPT !["batch"].tr = @ + 1]
    /\ sv' = [sv EXCEPT !["batch"] =
                 Frame(BatchKey(bat.doc, pair, media), transformed_content)]
    /\ pc' = [pc EXCEPT !["batch"] = "save_open"]
    /\ UNCHANGED <<disk, version, useDiskCache, web, bat, last, nops, nfaults, saved, grp, kd, run, hits, root, adm, pool>>

\* The work item returns its count, or its exception, to the pool. A pass
\* that returned becomes the previous operation (kept when the operations run
\* one after the other).
FinishPass(conc) ==
    /\ pc["batch"] = "done"
    /\ pc' = [pc EXCEPT !["batch"] = "idle"]
    /\ last' = IF ~conc /\ ctx["batch"].err = ""
               THEN [kind |-> "pass", req |-> NoRequest, media_types |-> bat.media_types,
                     force_generate |-> bat.force_generate, ext |-> ctx["batch"].ext,
                     tr |-> ctx["batch"].tr, writes |-> ctx["batch"].writes,
                     generated |-> bat.rendered_content,
                     emptyAtStart |-> (ctx["batch"].snap = EmptyDisk),
                     resp |-> NoResponse]
               ELSE last
    /\ bat' = BatIdle
    /\ ctx' = [ctx EXCEPT !["batch"] = FreshCtx(EmptyDisk)]
    /\ grp' = Settled
    /\ run' = IF run.state # "running" THEN run
              ELSE IF ctx["batch"].err = ""
              THEN [run EXCEPT !.results = Append(@, [ok |-> TRUE, n |-> bat.rendered_content]),
                               !.returned = @ \cup {bat.doc}]
              ELSE [run EXCEPT !.results = Append(@, [ok |-> FALSE, n |-> 0]),
                               !.failed = @ \cup {bat.doc}]
    /\ UNCHANGED <<disk, version, useDiskCache, web, sv, nops, nfaults, saved, kd, hits, root, adm, pool>>

\* ------------------------------------------------------------- save_cache

\* save_cache: the parent directories are made and the file is opened for
\* writing, which creates it or truncates it to nothing. The call joins the
\* calls that overlap it, or starts a group of its own.
SaveOpen(p) ==
    LET call == [key |-> sv[p].key, path |-> sv[p].path, content |-> sv[p].content] IN
    /\ pc[p] = "save_open"
    /\ ~disk[sv[p].path].denied
    /\ disk' = [disk EXCEPT ![sv[p].path] = File(<<>>)]
    /\ ctx' = [ctx EXCEPT ![p].writes = @ + 1,
                          ![p].made = @ \cup {<<sv[p].path, sv[p].data>>}]
    /\ saved' = saved \cup {<<sv[p].path, sv[p].data>>}
    /\ grp' = IF Writing(Procs \ {p}) THEN grp \cup {call} ELSE {call}
    /\ pc' = [pc EXCEPT ![p] = "save_write"]
    /\ root' = TRUE
    /\ UNCHANGED <<version, useDiskCache, web, bat, sv, last, nops, nfaults, kd, run, hits, adm, pool>>

\* json.dump into the buffered file: whatever has filled the buffer so far,
\* the first k units of the envelope, reaches the file.
SaveWrite(p) ==
    /\ pc[p] = "save_write"
    /\ \E k \in 0..(Len(sv[p].data) - 1) :
          /\ disk' = [disk EXCEPT ![sv[p].path] = WriteAt(@, 0, SubSeq(sv[p].data, 1, k))]
          /\ sv' = [sv EXCEPT ![p].off = k]
    /\ pc' = [pc EXCEPT ![p] = "save_close"]
    /\ UNCHANGED <<version, useDiskCache, web, bat, ctx, last, nops, nfaults, saved, grp, kd, run, hits, root, adm, pool>>

\* The with block is left: the rest of the envelope is flushed at the
\* writer's offset, the file is closed and save_cache returns.
SaveClose(p) ==
    /\ pc[p] = "save_close"
    /\ disk' = [disk EXCEPT ![sv[p].path] =
                   WriteAt(@, sv[p].off, SubSeq(sv[p].data, sv[p].off + 1, Len(sv[p].data)))]
    /\ sv' = [sv EXCEPT ![p] = NoFrame]
    /\ Return(p)
    /\ UNCHANGED <<version, useDiskCache, ctx, last, nops, nfaults, saved, grp, kd, run, hits, root, adm, pool>>

\* ------------------------------------------------------- specifications

\* The operations one after the other, on a disk nothing else touches.
Next ==
    \/ \E r \in Requests : StartRequest(r, FALSE)
    \/ ViewLookup
    \/ XmlLookup
    \/ XmlExtract
    \/ ViewTransform
    \/ FinishRequest(FALSE)
    \/ \E m \in MediaLists, f \in BOOLEAN : StartPass("ms001", m, f, FALSE)
    \/ BaseLookup
    \/ BaseExtract
    \/ MediaLookup
    \/ MediaTransform
    \/ FinishPass(FALSE)
    \/ \E p \in Procs : SaveOpen(p)
    \/ \E p \in Procs : SaveWrite(p)
    \/ \E p \in Procs : SaveClose(p)
    \/ UpdateDocument

Spec == Init /\ [][Next]_vars

\* ------------------------------------------------------------ properties

\* A passage request for a transformed media type has been answered with
\* success while the disk cache is enabled.
WebServedMedia ==
    /\ pc["web"] = "done"
    /\ web.kind = "passage"
    /\ web.media # DEFAULT_MEDIA_TYPE
    /\ web.resp.status = "200"
    /\ useDiskCache

\* The previous served operation was this very request, on an empty cache.
RepeatsFirstRequest ==
    /\ last.kind = "request"
    /\ last.req = web.req
    /\ last.emptyAtStart

\* C1: with caching enabled, a request for a transformed passage served on
\* an empty cache calls the extraction once and the transformation once, and
\* the identical request that follows it calls neither.
C1_ReadThrough ==
    WebServedMedia =>
        /\ ctx["web"].snap = EmptyDisk => ctx["web"].ext = 1 /\ ctx["web"].tr = 1
        /\ RepeatsFirstRequest =>
              /\ last.ext = 1 /\ last.tr = 1
              /\ ctx["web"].ext = 0 /\ ctx["web"].tr = 0

C1_Witness ==
    /\ WebServedMedia
    /\ RepeatsFirstRequest
    /\ last.ext = 1 /\ last.tr = 1
    /\ ctx["web"].reads = 1 /\ ctx["web"].ext = 0

\* C2: when a served passage request found no cached base passage and
\* extracted it, the base entry of the cache holds the extracted passage when
\* the request returns.
C2_BaseStored ==
    (/\ pc["web"] = "done"
     /\ web.kind = "passage"
     /\ web.resp.status = "200"
     /\ useDiskCache
     /\ ctx["web"].ext = 1)
    => GetCacheRead(disk[ViewPath(web.req, web.tree, DEFAULT_MEDIA_TYPE)]).res
          = Some(web.passage)

\* A pass of the batch worker has returned.
PassDone == pc["batch"] = "done" /\ ctx["batch"].err = ""

\* The previous served operation was a pass with the same media types.
FollowsSamePass == last.kind = "pass" /\ last.media_types = bat.media_types

\* C3: a pass with force off that follows a pass over the same document and
\* media types writes no cache file and leaves every cache file as it was.
C3_BatchIdempotent ==
    (PassDone /\ ~bat.force_generate /\ FollowsSamePass) =>
        /\ ctx["batch"].writes = 0
        /\ ctx["batch"].made = {}
        /\ disk = ctx["batch"].snap

C3_Witness ==
    /\ PassDone /\ ~bat.force_generate /\ FollowsSamePass
    /\ bat.media_types = <<"html">>
    /\ last.generated = 4
    /\ ctx["batch"].reads = 4

\* The artifacts a pass is responsible for: every pair in the base media
\* type and in every requested media type.
PassPaths ==
    {BatchPath(bat.doc, Pairs(bat.doc)[i], m) :
        i \in 1..Len(Pairs(bat.doc)),
        m \in {DEFAULT_MEDIA_TYPE} \cup {bat.media_types[j] : j \in 1..Len(bat.media_types)}}

\* C4: a pass with force on calls the extraction for every (tree, reference)
\* and the transformation for every requested media type of each, whatever
\* the cache holds, and afterwards each of these files holds the envelope the
\* pass produced for it.
C4_ForceRegenerates ==
    (PassDone /\ bat.force_generate) =>
        /\ ctx["batch"].ext = Len(Pairs(bat.doc))
        /\ ctx["batch"].tr = Len(Pairs(bat.doc)) * Len(bat.media_types)
        /\ \A path \in PassPaths :
              /\ \E m \in ctx["batch"].made : m[1] = path
              /\ \A m \in ctx["batch"].made : m[1] = path => disk[path] = File(m[2])

C4_Witness ==
    /\ PassDone /\ bat.force_generate
    /\ bat.media_types = <<"html">>
    /\ \A path \in PassPaths :
          /\ JsonLoad(ctx["batch"].snap[path].data).kind = "object"
          /\ disk[path] # ctx["batch"].snap[path]

\* C5: a pass on an empty cache reports R * (1 + M) generated artifacts for
\* R references and M media types, a pass with force off that follows a pass
\* with the same media types reports 0, and a pass with force on reports
\* R * (1 + M).
C5_GeneratedCount ==
    LET full == Len(Pairs(bat.doc)) * (1 + Len(bat.media_types)) IN
    PassDone =>
        /\ ctx["batch"].snap = EmptyDisk => bat.rendered_content = full
        /\ (~bat.force_generate /\ FollowsSamePass) => bat.rendered_content = 0
        /\ bat.force_generate => bat.rendered_content = full

\* The scenario of the specification: 4 artifacts, then 0, then 4 again.
C5_Witness ==
    /\ PassDone /\ bat.force_generate /\ FollowsSamePass
    /\ bat.media_types = <<"html">>
    /\ ~last.force_generate /\ last.generated = 0
    /\ bat.rendered_content = 4

\* The request names a reference, a range start or a range end that the
\* resolved tree does not have.
NamesUnknownReference ==
    LET r == web.req
        paths == IF web.tree \in DOMAIN NavPaths(r.resource)
                 THEN NavPaths(r.resource)[web.tree] ELSE {}
    IN
    /\ r.resource \in Documents
    /\ \/ Given(r.ref) /\ r.ref \notin paths
       \/ Given(r.start) /\ r.start \notin paths
       \/ Given(r.end) /\ r.end \notin paths

\* C6: a request that names an unknown reference, range start or range end
\* is answered with a client error, and it has looked up no cache entry,
\* opened no cache file and left the cache as it was.
C6_UnknownReferenceRejected ==
    (pc["web"] = "done" /\ NamesUnknownReference) =>
        /\ web.resp.status \in {"400", "404", "4xx"}
        /\ ctx["web"].reads = 0
        /\ ctx["web"].writes = 0
        /\ disk = ctx["web"].snap

C6_Witness ==
    /\ pc["web"] = "done"
    /\ web.req.ref = "p99"
    /\ web.resp.status = "404"
    /\ disk # EmptyDisk
    /\ disk = ctx["web"].snap

\* -------------------------------------------------- concurrent operation

\* The requests served while a batch run is under way: one reference in
\* each media type, and in the transformed one also with an empty range end
\* (GET /document/?resource=ms001&ref=p1&end=&mediaType=html).
ConcRequests ==
    {Request("ms001", "p1", None, None, None, m) : m \in MediaParams}
    \cup {Request("ms001", "p1", None, "", None, "html")}

\* The --media-type lists of the batch run under way.
ConcMediaLists == {<<"html">>}

\* The web process and a batch worker run side by side on the same cache
\* directory: each step of one may fall between any two steps of the other.
NextConc ==
    \/ \E r \in ConcRequests : StartRequest(r, TRUE)
    \/ ViewLookup
    \/ XmlLookup
    \/ XmlExtract
    \/ ViewTransform
    \/ FinishRequest(TRUE)
    \/ \E m \in ConcMediaLists, f \in BOOLEAN : StartPass("ms001", m, f, TRUE)
    \/ BaseLookup
    \/ BaseExtract
    \/ MediaLookup
    \/ MediaTransform
    \/ FinishPass(TRUE)
    \/ \E p \in Procs : SaveOpen(p)
    \/ \E p \in Procs : SaveWrite(p)
    \/ \E p \in Procs : SaveClose(p)
    \/ UpdateDocument

SpecConc == Init /\ [][NextConc]_vars

\* ------------------------------------------------- faults of the file system

\* The exception caught where it is raised, and the operation ended with an
\* empty answer.
RaiseSwallowed(p, err) ==
    /\ pc' = [pc EXCEPT ![p] = "done"]
    /\ ctx' = [ctx EXCEPT ![p].err = err]
    /\ web' = IF p = "web" THEN [web EXCEPT !.resp = Response(<<>>, "200", "")] ELSE web
    /\ bat' = bat

\* An exception leaves the operation of process p.
Raise(p, err) ==
    /\ pc' = [pc EXCEPT ![p] = "done"]
    /\ ctx' = [ctx EXCEPT ![p].err = err]
    /\ web' = IF p = "web" THEN [web EXCEPT !.resp = Response(<<>>, "500", "")] ELSE web
    /\ bat' = bat

\* get_xml_passage_as_string raises (the document file is missing or is no
\* XML, the engine fails): the exception leaves the view or the work item.
ExtractFail(p) ==
    /\ pc[p] = IF p = "web" THEN "xml_extract" ELSE "base_extract"
    /\ Raise(p, "ExtractionError")
    /\ nfaults < MaxFaults
    /\ nfaults' = nfaults + 1
    /\ UNCHANGED <<disk, version, useDiskCache, sv, last, nops, saved, grp, kd, run, hits, root, adm, pool>>

\* get_transformed raises (the stylesheet fails on the passage): the
\* exception leaves the view or the work item.
TransformFail(p) ==
    /\ pc[p] = IF p = "web" THEN "view_transform" ELSE "media_transform"
    /\ Raise(p, "TransformationError")
    /\ nfaults < MaxFaults
    /\ nfaults' = nfaults + 1
    /\ UNCHANGED <<disk, version, useDiskCache, sv, last, nops, saved, grp, kd, run, hits, root, adm, pool>>

\* save_cache: path.parent.mkdir fails (no permission, no space, a file in
\* the way). The call stands before the try block, so the OSError leaves
\* save_cache.
SaveMkdirFail(p) ==
    /\ pc[p] = "save_open"
    /\ Raise(p, "OSError")
    /\ sv' = [sv EXCEPT ![p] = NoFrame]
    /\ UNCHANGED <<disk, version, useDiskCache, last, nops, saved, grp, kd, run, hits, root, adm, pool>>
    /\ nfaults < MaxFaults
    /\ nfaults' = nfaults + 1

\* save_cache: open fails with an IOError, which the except clause swallows.
\* The file is as it was.
SaveOpenFail(p) ==
    /\ pc[p] = "save_open"
    /\ sv' = [sv EXCEPT ![p] = NoFrame]
    /\ Return(p)
    /\ UNCHANGED <<disk, version, useDiskCache, ctx, last, nops, saved, grp, kd, run, hits, root, adm, pool>>
    /\ nfaults < MaxFaults
    /\ nfaults' = nfaults + 1

\* save_cache: a write or the closing flush fails with an IOError, which the
\* except clause swallows. The file keeps what had reached it.
SaveWriteFail(p) ==
    /\ pc[p] \in {"save_write", "save_close"}
    /\ sv' = [sv EXCEPT ![p] = NoFrame]
    /\ Return(p)
    /\ UNCHANGED <<disk, version, useDiskCache, ctx, last, nops, saved, grp, kd, run, hits, root, adm, pool>>
    /\ nfaults < MaxFaults
    /\ nfaults' = nfaults + 1

\* What something other than save_cache can leave at a cache path: a file
\* the process may not open, an empty file, a cut envelope, JSON that is no
\* object, an object without content, bytes that are no UTF-8, an envelope of
\* the empty string.
ForeignFiles ==
    {Denied, File(<<>>), File(<<LBrace>>), File(<<JsonNumber>>), File(<<EmptyObject>>),
     File(<<BadByte>>), File(JsonDump(<<>>))}

TamperPaths ==
    {BatchPath("ms001", Pairs("ms001")[i], m) :
        i \in 1..Len(Pairs("ms001")), m \in {DEFAULT_MEDIA_TYPE, "html"}}

\* Every file of the cache is one save_cache wrote in full.
Pristine ==
    \A q \in AllPaths :
        disk[q].exists => \E s \in saved : s[1] = q /\ disk[q] = File(s[2])

\* Between two operations a cache file is damaged or replaced from outside.
Tamper(path, f) ==
    /\ \A p \in Procs : pc[p] = "idle"
    /\ Pristine
    /\ disk' = [disk EXCEPT ![path] = f]
    /\ UNCHANGED <<version, useDiskCache, pc, web, bat, ctx, sv, last, nops, saved, grp, kd, run, hits, root, adm, pool>>
    /\ nfaults < MaxFaults
    /\ nfaults' = nfaults + 1

FaultRequests ==
    {Request("ms001", "p1", None, None, None, m) : m \in MediaParams}
    \cup {Request("ms001", "p99", None, None, None, None)}

\* The operations one after the other, on a file system that can fail and a
\* cache directory that can be damaged.
NextFaults ==
    \/ \E r \in FaultRequests : StartRequest(r, FALSE)
    \/ ViewLookup
    \/ XmlLookup
    \/ XmlExtract
    \/ ViewTransform
    \/ FinishRequest(FALSE)
    \/ \E m \in MediaLists, f \in BOOLEAN : StartPass("ms001", m, f, FALSE)
    \/ BaseLookup
    \/ BaseExtract
    \/ MediaLookup
    \/ MediaTransform
    \/ FinishPass(FALSE)
    \/ \E p \in Procs : SaveOpen(p)
    \/ \E p \in Procs : SaveWrite(p)
    \/ \E p \in Procs : SaveClose(p)
    \/ \E p \in Procs : SaveMkdirFail(p)
    \/ \E p \in Procs : SaveOpenFail(p)
    \/ \E p \in Procs : SaveWriteFail(p)
    \/ \E p \in Procs : ExtractFail(p)
    \/ \E p \in Procs : TransformFail(p)
    \/ \E path \in TamperPaths, f \in ForeignFiles : Tamper(path, f)

SpecFaults == Init /\ [][NextFaults]_vars

\* -------------------------------------- properties of the store under load

\* The file the last lookup of process p read is one that a single
\* save_cache call wrote in full.
ReadWholeEnvelope(p) ==
    \E s \in saved : s[1] = ctx[p].at /\ ctx[p].observed = File(s[2])

\* C7: a lookup never reads a file that a save_cache in progress has
\* written in part: the file it reads is absent or is the whole envelope of
\* one save_cache call.
C7_AtomicWrites ==
    \A p \in Procs : ctx[p].observed.exists => ReadWholeEnvelope(p)

\* C8: a lookup returns content only from a file that one save_cache call
\* wrote in full; a file that is cut or mixed yields a miss.
C8_NoCorruptHit ==
    \A p \in Procs :
        LET g == GetCacheRead(ctx[p].observed) IN
        (~g.raised /\ g.res.some) => ReadWholeEnvelope(p)

\* C9: get_cache never raises: no operation ends in an exception of a lookup.
C9_GetNeverRaises ==
    \A p \in Procs : ctx[p].err \notin {"AttributeError", "UnicodeDecodeError"}

\* C10: save_cache never fails its caller: no operation ends in an
\* exception of a cache write, and the request whose transformation was done
\* is answered with it.
C10_SaveNeverFails ==
    /\ \A p \in Procs : ctx[p].err # "OSError"
    /\ (pc["web"] = "done" /\ ctx["web"].tr = 1 /\ ctx["web"].err \notin {"AttributeError", "UnicodeDecodeError"})
          => web.resp = Response(Transform(web.media, web.passage), "200", Mimetype(web.media))

\* ------------------------------------------------------ generate command

\* prerender: the navigations are listed, the pool is made and every
\* navigation becomes a work item of imap_unordered.
StartRun(medias, force) ==
    /\ run.state # "running"
    /\ \A p \in Procs : pc[p] = "idle"
    /\ nops < MaxOps
    /\ run' = [NoRun EXCEPT !.state = "running", !.media_types = medias, !.force = force,
                            !.queue = Navigations]
    /\ UNCHANGED <<disk, version, useDiskCache, pc, web, bat, ctx, sv, last, nops, nfaults,
                   saved, grp, kd, hits, root, adm, pool>>

\* The worker of the pool takes the next work item.
TakeItem ==
    /\ run.state = "running"
    /\ run.queue # <<>>
    /\ StartPass(Head(run.queue), run.media_types, run.force, FALSE)

\* The loop over imap_unordered reads the next result. A count is added to
\* the counters, and with the last one the command ends. The exception of a
\* work item is raised again in the loop: it leaves the with block, whose exit
\* terminates the pool, so the worker is killed where it stands, the work
\* items not yet taken are dropped, and the command fails.
ReadResult ==
    /\ run.state = "running"
    /\ run.results # <<>>
    /\ IF Head(run.results).ok
       THEN /\ run' = [run EXCEPT !.results = Tail(@),
                                  !.mss = @ + 1,
                                  !.pages = @ + Head(run.results).n,
                                  !.state = IF run.mss + 1 = Len(Navigations)
                                            THEN "done" ELSE "running"]
            /\ UNCHANGED <<pc, bat, ctx, sv>>
       ELSE /\ run' = [run EXCEPT !.state = "aborted", !.queue = <<>>, !.results = <<>>]
            /\ pc' = [pc EXCEPT !["batch"] = "idle"]
            /\ bat' = BatIdle
            /\ ctx' = [ctx EXCEPT !["batch"] = FreshCtx(EmptyDisk)]
            /\ sv' = [sv EXCEPT !["batch"] = NoFrame]
    /\ UNCHANGED <<disk, version, useDiskCache, web, last, nops, nfaults, saved, grp, kd, hits, root, adm, pool>>

\* A generate command with one worker, on engines that can fail.
NextRun ==
    \/ \E m \in MediaLists, f \in BOOLEAN : StartRun(m, f)
    \/ TakeItem
    \/ BaseLookup
    \/ BaseExtract
    \/ MediaLookup
    \/ MediaTransform
    \/ FinishPass(FALSE)
    \/ \E p \in Procs : SaveOpen(p)
    \/ \E p \in Procs : SaveWrite(p)
    \/ \E p \in Procs : SaveClose(p)
    \/ ReadResult
    \/ \E p \in Procs : ExtractFail(p)
    \/ \E p \in Procs : TransformFail(p)
    \/ UpdateDocument

SpecRun == Init /\ [][NextRun]_vars

\* The cache files of document d.
PathsOf(d) == {q \in AllPaths : q.dir = sha_subfolders(d)}

\* C14: when the work item of one document has failed and the command is
\* over, the work item of every other document has returned, and every cache
\* file of every other document is an envelope that one save_cache call wrote
\* in full.
C14_FailureIsolated ==
    (run.state \in {"done", "aborted"} /\ run.failed # {}) =>
        \A d \in Documents \ run.failed :
            /\ d \in run.returned
            /\ \A q \in PathsOf(d) :
                  disk[q].exists => \E w \in saved : w[1] = q /\ disk[q] = File(w[2])

\* The artifacts a generate command is responsible for: every pair of every
\* navigation in the base media type and in every requested media type.
RunPaths ==
    UNION {{BatchPath(d, Pairs(d)[i], m) :
               i \in 1..Len(Pairs(d)),
               m \in {DEFAULT_MEDIA_TYPE}
                        \cup {run.media_types[j] : j \in 1..Len(run.media_types)}} :
           d \in {Navigations[n] : n \in 1..Len(Navigations)}}

\* C16: when a generate command has ended with every work item returned,
\* a lookup of the base passage and of every requested media type of every
\* (tree, reference) of every document returns content.
C16_Warmed ==
    run.state = "done" =>
        \A q \in RunPaths : Truthy(GetCacheRead(disk[q]).res)

C16_Witness ==
    /\ run.state = "done"
    /\ run.media_types = <<"html">>
    /\ run.mss = 2
    /\ run.pages = 8
    /\ \A q \in RunPaths : \E w \in saved : w[1] = q /\ disk[q] = File(w[2])

\* ----------------------------------------------------------- key derivation

\* The fields two cache keys are drawn from. The range end is absent, the
\* empty string (GET /document/?end=) or a reference; one media type is also
\* the name of a reference, so that the fields overlap in value.
KeyIdentifiers == {"ms001", "ms002"}
KeyRefs == {"p1", "p2"}
KeyEnds == {None, "", "p2", "html"}
KeyMedias == {DEFAULT_MEDIA_TYPE, "html"}
KeyTrees == {"default", "p1"}

Keys ==
    {Key(d, r, e, m, t) :
        d \in KeyIdentifiers, r \in KeyRefs, e \in KeyEnds, m \in KeyMedias, t \in KeyTrees}

InitKeys ==
    /\ disk = EmptyDisk
    /\ version = "v1"
    /\ useDiskCache = TRUE
    /\ pc = [p \in Procs |-> "idle"]
    /\ web = WebIdle
    /\ bat = BatIdle
    /\ ctx = [p \in Procs |-> FreshCtx(EmptyDisk)]
    /\ sv = [p \in Procs |-> NoFrame]
    /\ last = NoOp
    /\ nops = 0
    /\ nfaults = 0
    /\ saved = {}
    /\ grp = {}
    /\ run = NoRun
    /\ hits = {}
    /\ root = TRUE
    /\ adm = NoAdm
    /\ pool = NoPool
    /\ \E a \in Keys, b \in Keys : kd = [NoKeys EXCEPT !.a = a, !.b = b]

\* get_cache_path is called for both keys.
DerivePaths ==
    /\ kd.derived = 0
    /\ kd' = [kd EXCEPT !.pa = PathOf(kd.a), !.pb = PathOf(kd.b), !.derived = 1]
    /\ UNCHANGED <<disk, version, useDiskCache, pc, web, bat, ctx, sv, last, nops, nfaults,
                   saved, grp, run, hits, root, adm, pool>>

\* get_cache_path is called for both keys once more.
DeriveAgain ==
    /\ kd.derived = 1
    /\ kd' = [kd EXCEPT !.pa = PathOf(kd.a), !.pb = PathOf(kd.b), !.derived = 2]
    /\ UNCHANGED <<disk, version, useDiskCache, pc, web, bat, ctx, sv, last, nops, nfaults,
                   saved, grp, run, hits, root, adm, pool>>

NextKeys ==
    \/ DerivePaths
    \/ DeriveAgain

SpecKeys == InitKeys /\ [][NextKeys]_vars

\* C11: two cache keys have the same path if and only if they agree in all
\* five fields, the absent range end being different from every string.
C11_KeyInjective ==
    kd.derived > 0 => (kd.pa = kd.pb <=> kd.a = kd.b)

\* ------------------------------------------------------ concurrent saves

\* C12: when the save_cache calls that overlapped in time had pairwise
\* distinct keys, then once they have all returned a lookup of each key
\* returns the content that was saved under it.
C12_DisjointSaves ==
    (~Writing(Procs) /\ \A x \in grp, y \in grp : x.key = y.key => x = y) =>
        \A x \in grp : GetCacheRead(disk[x.path]).res = Some(x.content)

\* C13: when save_cache calls with the same key overlapped in time, then once
\* they have all returned the file of the key is the whole envelope of one of
\* them.
C13_LastWriterWins ==
    ~Writing(Procs) =>
        \A x \in grp :
            (\E y \in grp : y # x /\ y.key = x.key) =>
                \E z \in grp : z.key = x.key /\ disk[x.path] = File(JsonDump(z.content))

\* ------------------------------------------------------- engine failures

\* The request ended in an exception of the extraction or of the
\* transformation.
EngineFailed ==
    /\ pc["web"] = "done"
    /\ ctx["web"].err \in {"ExtractionError", "TransformationError"}

\* C15: a request whose extraction or transformation raised is answered with
\* a server error and no body, and it has opened no cache file for writing and
\* left the cache as it was.
C15_EngineFailurePropagates ==
    EngineFailed =>
        /\ web.resp = Response(<<>>, "500", "")
        /\ ctx["web"].writes = 0
        /\ ctx["web"].made = {}
        /\ disk = ctx["web"].snap

C15_Witness ==
    /\ EngineFailed
    /\ ctx["web"].err = "TransformationError"
    /\ ctx["web"].ext = 1
    /\ ctx["web"].reads = 2

\* ----------------------------------------------------------- no eviction

\* C17: no eviction.  Once a lookup of a cache file has returned content,
\* every later lookup of that file, by the read path or by a batch pass, also
\* returns content: in every step in which a process completes a lookup of a
\* file that is in hits, what it read decodes to content.
C17_NoEviction ==
    [][\A p \in Procs :
          (ctx'[p].reads = ctx[p].reads + 1 /\ ctx'[p].at \in hits) =>
              LET g == GetCacheRead(ctx'[p].observed) IN ~g.raised /\ g.res.some]_vars

\* ----------------------------------------------------------- clear command

\* The number of clear commands one behaviour runs.
MaxClears == 2

\* A clear command that goes on whatever the flag and the answer.
ConfirmedAlways(confirm, answer) == TRUE

\* clear_disk_cache, "if not confirm: click.confirm(..., abort=True)": the
\* command goes on with the --confirm flag, or with a positive answer to the
\* prompt; any other answer aborts it.
Confirmed(confirm, answer) == confirm \/ answer

\* The cache files that exist.
Existing == {q \in AllPaths : disk[q].exists}

\* The clear command starts: the application is loaded, and with it the cache
\* object, whose constructor makes the cache directory.
ClearStart ==
    /\ adm.state = "idle"
    /\ adm.n < MaxClears
    /\ \A p \in Procs : pc[p] = "idle"
    /\ root' = TRUE
    /\ adm' = [adm EXCEPT !.state = "started", !.confirm = FALSE, !.answer = FALSE,
                          !.outcome = ""]
    /\ UNCHANGED <<disk, version, useDiskCache, pc, web, bat, ctx, sv, last, nops, nfaults,
                   saved, grp, kd, run, hits, pool>>

\* The cache directory is removed from outside while the command is between
\* its start and its test of the directory.
RemoveRoot ==
    /\ adm.state = "started"
    /\ root
    /\ disk' = EmptyDisk
    /\ root' = FALSE
    /\ UNCHANGED <<version, useDiskCache, pc, web, bat, ctx, sv, last, nops, nfaults,
                   saved, grp, kd, run, hits, adm, pool>>

\* clear_disk_cache with the --confirm flag as given and answer as the answer
\* to the prompt: nothing when the directory does not exist; an abort when the
\* command is not confirmed; else shutil.rmtree, which removes the tree, or
\* fails part of the way and leaves the files in keep.
ClearRun(confirm, answer) ==
    /\ adm.state = "started"
    /\ LET asked == root /\ ~confirm
           done(o) == [adm EXCEPT !.state = "idle", !.confirm = confirm,
                                  !.answer = asked /\ answer, !.outcome = o, !.n = @ + 1,
                                  !.cleared = IF o = "cleared" THEN @ + 1 ELSE @]
       IN
       IF ~root
       THEN /\ adm' = done("missing")
            /\ UNCHANGED <<disk, root>>
       ELSE IF ~Confirmed(confirm, asked /\ answer)
       THEN /\ adm' = done("aborted")
            /\ UNCHANGED <<disk, root>>
       ELSE \/ /\ disk' = EmptyDisk
               /\ root' = FALSE
               /\ adm' = done("cleared")
            \/ \E keep \in SUBSET Existing :
                  /\ disk' = [q \in AllPaths |-> IF q \in keep THEN disk[q] ELSE Absent]
                  /\ root' = TRUE
                  /\ adm' = done("error")
    /\ UNCHANGED <<version, useDiskCache, pc, web, bat, ctx, sv, last, nops, nfaults,
                   saved, grp, kd, run, hits, pool>>

\* Batch passes in sequence, and the clear command between them.
NextAdmin ==
    \/ adm.state = "idle" /\ \E m \in MediaLists, f \in BOOLEAN : StartPass("ms001", m, f, FALSE)
    \/ BaseLookup
    \/ BaseExtract
    \/ MediaLookup
    \/ MediaTransform
    \/ FinishPass(FALSE)
    \/ SaveOpen("batch")
    \/ SaveWrite("batch")
    \/ SaveClose("batch")
    \/ ClearStart
    \/ RemoveRoot
    \/ \E confirm \in BOOLEAN, answer \in BOOLEAN : ClearRun(confirm, answer)

SpecAdmin == Init /\ [][NextAdmin]_vars

\* C18: the clear command deletes only after confirmation.  In every step in
\* which the command runs, the cache tree changes only if the --confirm flag
\* was given or the prompt was answered positively; and when the command was
\* declined, or found no cache directory, no cache file and no directory is
\* deleted or modified.
C18_ClearConfirmed ==
    [][adm'.n = adm.n + 1 =>
          /\ (disk' # disk \/ root' # root) => (adm'.confirm \/ adm'.answer)
          /\ adm'.outcome \in {"aborted", "missing"} => (disk' = disk /\ root' = root)
          /\ (~adm'.confirm /\ ~adm'.answer /\ root) => adm'.outcome = "aborted"]_vars

\* A clear command has been declined at the prompt over a cache that holds
\* files, after an earlier clear command, confirmed, had removed the tree.
C18_Witness ==
    /\ adm.state = "idle"
    /\ adm.outcome = "aborted"
    /\ ~adm.confirm
    /\ adm.cleared = 1
    /\ Existing # {}

\* -------------------------------------------------------- disable switch

\* C19: with USE_DISK_CACHE other than "true", no request and no batch pass
\* reads from or writes to the disk cache: no process has looked a cache file
\* up or opened one for writing, and the cache holds no file.
C19_SwitchDisables ==
    ~useDiskCache =>
        /\ \A p \in Procs : ctx[p].reads = 0 /\ ctx[p].writes = 0
        /\ disk = EmptyDisk

\* ------------------------------------------------- hit on the read path

\* The lookup of the transformed artifact that the request being served asks
\* for, on the cache as the request found it.
CachedAtStart ==
    GetCacheRead(ctx["web"].snap[ViewPath(web.req, web.tree, web.media)])

\* A passage request for a transformed media type has been answered, with the
\* disk cache enabled, and its artifact was cached when it came in.
WebServedHit ==
    /\ pc["web"] = "done"
    /\ web.kind = "passage"
    /\ web.media # DEFAULT_MEDIA_TYPE
    /\ useDiskCache
    /\ ~CachedAtStart.raised
    /\ CachedAtStart.res.some
    /\ CachedAtStart.res.val # <<>>

\* C20: a request for a transformed media type whose artifact is cached is
\* answered with the cached content from the one lookup of that artifact: no
\* lookup of the base passage, no extraction, no transformation, no write.
C20_HitReturnsImmediately ==
    WebServedHit =>
        /\ web.resp = Response(CachedAtStart.res.val, "200", Mimetype(web.media))
        /\ ctx["web"].reads = 1
        /\ ctx["web"].at = ViewPath(web.req, web.tree, web.media)
        /\ ctx["web"].ext = 0
        /\ ctx["web"].tr = 0
        /\ ctx["web"].writes = 0
        /\ ctx["web"].made = {}
        /\ disk = ctx["web"].snap

\* The artifact had been written by a batch pass, and the base passage is
\* cached too, yet is not looked up.
C20_Witness ==
    /\ WebServedHit
    /\ last.kind = "pass"
    /\ GetCacheRead(disk[ViewPath(web.req, web.tree, DEFAULT_MEDIA_TYPE)]).res.some
    /\ ctx["web"].reads = 1
    /\ web.resp.status = "200"

\* ------------------------------------------- failures inside a batch pass

\* A batch pass is over because the extraction or the transformation raised.
PassFailed ==
    /\ pc["batch"] = "done"
    /\ ctx["batch"].err \in {"ExtractionError", "TransformationError"}

\* The artifacts of the (tree, reference) pairs that come after the pair the
\* pass was working on.
RemainingPaths ==
    {BatchPath(bat.doc, Pairs(bat.doc)[k], m) :
        k \in (bat.i + 1)..Len(Pairs(bat.doc)),
        m \in {DEFAULT_MEDIA_TYPE} \cup {bat.media_types[j] : j \in 1..Len(bat.media_types)}}

\* C21: when the extraction or the transformation has failed for one
\* reference of a document, the references of the document that come after
\* it have been processed all the same: each of their artifacts is cached.
C21_ReferenceIsolated ==
    PassFailed => \A q \in RemainingPaths : Truthy(GetCacheRead(disk[q]).res)

\* ------------------------------------------------ unsupported media types

\* Requests for a passage as XML, in a supported media type, and in a media
\* type without a stylesheet.
MediaRequests ==
    {Request("ms001", r, None, None, None, m) :
        r \in {"p1", "p2"}, m \in MediaParams \cup BadMediaParams}

\* Requests one after the other, among them requests for a media type the
\* transformer does not support.
NextMedia ==
    \/ \E r \in MediaRequests : StartRequest(r, FALSE)
    \/ ViewLookup
    \/ XmlLookup
    \/ XmlExtract
    \/ ViewTransform
    \/ \E o \in BaseTransformOutcomes : ViewTransformBase(o)
    \/ FinishRequest(FALSE)
    \/ SaveOpen("web")
    \/ SaveWrite("web")
    \/ SaveClose("web")

SpecMedia == Init /\ [][NextMedia]_vars

\* Statuses of a client-side failure.
ClientErrors == {"4xx", "400", "403", "404"}

\* A passage request for a media type without a stylesheet has been answered.
BadMediaAnswered ==
    /\ pc["web"] = "done"
    /\ web.kind = "passage"
    /\ web.media \in BadMediaParams

\* C22: a request with a media type the transformer does not support is
\* answered with a client-side failure, and writes no cache file under that
\* media type.
C22_BadMediaRejected ==
    BadMediaAnswered =>
        /\ web.resp.status \in ClientErrors
        /\ ctx["web"].writes = 0
        /\ disk[ViewPath(web.req, web.tree, web.media)] = Absent

\* ------------------------------------------------------------ unknown tree

\* A request on a document with navigation, naming a tree that the document
\* does not have, has been answered.
UnknownTreeAnswered ==
    /\ pc["web"] = "done"
    /\ web.req.resource \in Documents
    /\ Given(web.req.tree)
    /\ web.req.tree \notin DOMAIN NavReferences(web.req.resource)

\* C23: a request naming a tree the document does not have is answered with
\* a client-side failure whatever its ref, start and end parameters, none
\* given included, and neither reads nor writes a cache file.
C23_UnknownTreeRejected ==
    UnknownTreeAnswered =>
        /\ web.resp.status \in ClientErrors
        /\ ctx["web"].reads = 0
        /\ ctx["web"].writes = 0
        /\ disk = ctx["web"].snap

\* ----------------------------------------------------------- worker pool

\* The largest corpus and the largest --workers option of a generate command.
MaxDocs == 3
MaxWorkers == 3

\* The counts a work item can return: _prerender_collection's
\* rendered_content, from nothing generated to every artifact of a document
\* with two references and one media type.
PassCounts == {0, 2, 4}

Min(a, b) == IF a < b THEN a ELSE b

\* A loop that counts one artifact per work item.
AddOne(pages, generated) == pages + 1

\* "for generated in ...: pages += generated"
AddGenerated(pages, generated) == pages + generated

\* Workers of the pool at work on an item.
InFlight == {k \in DOMAIN pool.busy : pool.busy[k] # 0}

\* prerender, up to the pool: Navigation.query.all() lists the n navigations
\* of the corpus by id, and num_workers = min(workers, len(navigations)).
StartPool(n, w) ==
    /\ pool.state = "idle"
    /\ pool' = [NoPool EXCEPT !.state = "started",
                              !.navigations = [i \in 1..n |-> i],
                              !.workers = w,
                              !.num_workers = Min(w, n)]
    /\ UNCHANGED <<disk, version, useDiskCache, pc, web, bat, ctx, sv, last, nops, nfaults,
                   saved, grp, kd, run, hits, root, adm>>

\* "with multiprocessing.Pool(processes=num_workers) as pool": the pool
\* starts its workers, or raises ValueError when asked for fewer than one
\* process, which ends the command. imap_unordered then queues one work item
\* per navigation id.
MakePool ==
    /\ pool.state = "started"
    /\ IF pool.num_workers < 1
       THEN pool' = [pool EXCEPT !.state = "crashed"]
       ELSE pool' = [pool EXCEPT !.state = "running",
                                 !.items = pool.navigations,
                                 !.tasks = pool.navigations,
                                 !.busy = [k \in 1..pool.num_workers |-> 0],
                                 !.by = [i \in 1..Len(pool.navigations) |-> <<>>]]
    /\ UNCHANGED <<disk, version, useDiskCache, pc, web, bat, ctx, sv, last, nops, nfaults,
                   saved, grp, kd, run, hits, root, adm>>

\* An idle worker of the pool takes the next work item of the queue.
WorkerTake(k) ==
    /\ pool.state = "running"
    /\ k \in DOMAIN pool.busy
    /\ pool.busy[k] = 0
    /\ pool.tasks # <<>>
    /\ pool' = [pool EXCEPT !.busy[k] = Head(pool.tasks),
                            !.tasks = Tail(@),
                            !.by[Head(pool.tasks)] = Append(@, k)]
    /\ UNCHANGED <<disk, version, useDiskCache, pc, web, bat, ctx, sv, last, nops, nfaults,
                   saved, grp, kd, run, hits, root, adm>>

\* A worker's call of _prerender_collection returns c: the count goes to the
\* results of the pool, in the order of completion.
WorkerDone(k, c) ==
    /\ pool.state = "running"
    /\ k \in DOMAIN pool.busy
    /\ pool.busy[k] # 0
    /\ pool' = [pool EXCEPT !.busy[k] = 0,
                            !.results = Append(@, c),
                            !.order = Append(@, pool.busy[k]),
                            !.generated = @ + c]
    /\ UNCHANGED <<disk, version, useDiskCache, pc, web, bat, ctx, sv, last, nops, nfaults,
                   saved, grp, kd, run, hits, root, adm>>

\* The loop over imap_unordered reads the next result: "pages += generated;
\* mss += 1". After the last one the loop and the with block are left and the
\* command ends.
LoopRead ==
    /\ pool.state = "running"
    /\ pool.results # <<>>
    /\ pool' = [pool EXCEPT !.results = Tail(@),
                            !.pages = AddGenerated(@, Head(pool.results)),
                            !.mss = @ + 1,
                            !.state = IF pool.mss + 1 = Len(pool.items)
                                      THEN "done" ELSE "running"]
    /\ UNCHANGED <<disk, version, useDiskCache, pc, web, bat, ctx, sv, last, nops, nfaults,
                   saved, grp, kd, run, hits, root, adm>>

\* One generate command over a corpus of n documents with --workers w.
NextPool ==
    \/ \E n \in 0..MaxDocs, w \in 1..MaxWorkers : StartPool(n, w)
    \/ MakePool
    \/ \E k \in 1..MaxWorkers : WorkerTake(k)
    \/ \E k \in 1..MaxWorkers, c \in PassCounts : WorkerDone(k, c)
    \/ LoopRead

SpecPool == Init /\ [][NextPool]_vars

\* C24: one work item per document; every work item is processed at most
\* once, by one worker, and exactly once when the command has ended; no more
\* than min(workers, documents) work items are in flight; and when the
\* command has ended, the documents counter is the number of documents and the
\* artifacts counter is the sum of the counts the work items returned.
C24_Partitioned ==
    pool.state \in {"running", "done"} =>
        /\ Len(pool.items) = Len(pool.navigations)
        /\ \A d \in 1..Len(pool.navigations) :
              Cardinality({i \in 1..Len(pool.items) : pool.items[i] = d}) = 1
        /\ \A i \in 1..Len(pool.items) : Len(pool.by[i]) <= 1
        /\ Cardinality(InFlight) <= Min(pool.workers, Len(pool.navigations))
        /\ \A k \in InFlight, l \in InFlight : pool.busy[k] = pool.busy[l] => k = l
        /\ pool.state = "done" =>
              /\ \A i \in 1..Len(pool.items) : Len(pool.by[i]) = 1
              /\ InFlight = {} /\ pool.tasks = <<>> /\ pool.results = <<>>
              /\ pool.mss = Len(pool.navigations)
              /\ pool.pages = pool.generated

\* Three documents and two workers; the second document was done before the
\* first, and the third by the worker that first came free.
C24_Witness ==
    /\ pool.state = "done"
    /\ Len(pool.navigations) = 3
    /\ pool.num_workers = 2
    /\ pool.order = <<2, 1, 3>>
    /\ pool.by[3] = pool.by[2]
    /\ pool.pages = 6

\* ----------------------------------------------------------- termination

\* The generate command where every step that can be taken is taken in the
\* end: the processes of the pool and the loop run on, and every call of a
\* work item returns.
SpecPoolFair == Init /\ [][NextPool]_vars /\ WF_vars(NextPool)

\* C25: for every corpus of n >= 0 documents and every worker count w >= 1,
\* a generate command that has listed its navigations ends in the end, with
\* every work item drained.
C25_Terminates ==
    (pool.state = "started") ~>
        (/\ pool.state = "done"
         /\ pool.mss = Len(pool.navigations)
         /\ pool.tasks = <<>> /\ InFlight = {})

\* ------------------------------------------- calls of the collaborators

\* What the last lookup of process p found: content, or nothing.
FoundContent(p) ==
    LET g == GetCacheRead(ctx[p].observed) IN ~g.raised /\ g.res.some /\ g.res.val # <<>>

\* Pair i of the pass under way had its base passage cached and its artifact
\* in media type m absent when the pass began.
BaseOnly(i, m) ==
    LET pair == Pairs(bat.doc)[i] IN
    /\ GetCacheRead(ctx["batch"].snap[BatchPath(bat.doc, pair, DEFAULT_MEDIA_TYPE)]).res.some
    /\ ~ctx["batch"].snap[BatchPath(bat.doc, pair, m)].exists

\* C26: the extraction is called for a key only after the lookup of its base
\* passage found nothing, or with force on, and the transformation only after
\* the lookup of the transformed artifact found nothing, or with force on, in
\* a batch pass and in a request alike; and a pass with force off over a
\* reference whose base passage is cached and whose artifact is absent
\* transforms the cached base passage and does not write the base passage.
C26_CollaboratorsOnMiss ==
    /\ (useDiskCache /\ pc["web"] = "xml_extract") =>
          /\ ctx["web"].at = ViewPath(web.req, web.tree, DEFAULT_MEDIA_TYPE)
          /\ ~FoundContent("web")
    /\ (useDiskCache /\ pc["web"] = "view_transform") =>
          ~GetCacheRead(ctx["web"].snap[ViewPath(web.req, web.tree, web.media)]).res.some
    /\ (pc["batch"] = "base_extract" /\ ~bat.force_generate) =>
          /\ ctx["batch"].at =
                BatchPath(bat.doc, Pairs(bat.doc)[bat.i], DEFAULT_MEDIA_TYPE)
          /\ ~FoundContent("batch")
    /\ (pc["batch"] = "media_transform" /\ ~bat.force_generate) =>
          /\ ctx["batch"].at =
                BatchPath(bat.doc, Pairs(bat.doc)[bat.i], bat.media_types[bat.j])
          /\ ~FoundContent("batch")
    /\ (PassDone /\ ~bat.force_generate) =>
          /\ ctx["batch"].ext =
                Cardinality({i \in 1..Len(Pairs(bat.doc)) :
                    ~GetCacheRead(ctx["batch"].snap[
                        BatchPath(bat.doc, Pairs(bat.doc)[i], DEFAULT_MEDIA_TYPE)]).res.some})
          /\ \A i \in 1..Len(Pairs(bat.doc)), j \in 1..Len(bat.media_types) :
                BaseOnly(i, bat.media_types[j]) =>
                    LET pair == Pairs(bat.doc)[i]
                        base == GetCacheRead(ctx["batch"].snap[
                                    BatchPath(bat.doc, pair, DEFAULT_MEDIA_TYPE)]).res.val
                    IN
                    /\ \A w \in ctx["batch"].made :
                          w[1] # BatchPath(bat.doc, pair, DEFAULT_MEDIA_TYPE)
                    /\ disk[BatchPath(bat.doc, pair, DEFAULT_MEDIA_TYPE)] =
                          ctx["batch"].snap[BatchPath(bat.doc, pair, DEFAULT_MEDIA_TYPE)]
                    /\ disk[BatchPath(bat.doc, pair, bat.media_types[j])] =
                          File(JsonDump(Transform(bat.media_types[j], base)))

\* A pass with force off and media type html has returned, on a cache that
\* held the base passage of every reference and no html artifact: it called
\* the transformation for each reference and the extraction for none, although
\* the document had been edited since the base passages were cached.
C26_Witness ==
    /\ PassDone /\ ~bat.force_generate
    /\ bat.media_types = <<"html">>
    /\ \A i \in 1..Len(Pairs(bat.doc)) : BaseOnly(i, "html")
    /\ ctx["batch"].ext = 0
    /\ ctx["batch"].tr = Len(Pairs(bat.doc))
    /\ version = "v2"

\* --------------------------------------------- from the batch to serving

\* The media types of the previous pass, the base media type among them.
LastMedias == {DEFAULT_MEDIA_TYPE} \cup {last.media_types[j] : j \in 1..Len(last.media_types)}

\* A request by reference, without range, has been answered with the disk
\* cache enabled, right after a batch pass that generated and stored every
\* artifact of the document in the media type asked for.
ServedAfterPass ==
    /\ pc["web"] = "done"
    /\ web.kind = "passage"
    /\ useDiskCache
    /\ Given(web.req.ref) /\ web.req.start = None /\ web.req.end = None
    /\ last.kind = "pass"
    /\ last.generated = Len(Pairs(web.req.resource)) * (1 + Len(last.media_types))
    /\ web.media \in LastMedias

\* C27: after a batch pass has stored the artifact of (d, t, r, m), a request
\* for d with ref r, no range, media type m and tree t, given or left to the
\* default, derives the key the pass derived, is answered with the content
\* the pass stored, and calls neither the extraction nor the transformation.
C27_BatchServes ==
    ServedAfterPass =>
        LET pair == <<web.tree, web.req.ref>> IN
        /\ ViewKey(web.req, web.tree, web.media) = BatchKey(web.req.resource, pair, web.media)
        /\ ctx["web"].snap[BatchPath(web.req.resource, pair, web.media)] =
              File(JsonDump(web.resp.body))
        /\ <<BatchPath(web.req.resource, pair, web.media), JsonDump(web.resp.body)>> \in saved
        /\ web.resp.status = "200"
        /\ ctx["web"].ext = 0
        /\ ctx["web"].tr = 0

\* The request left the tree to the default and asked for html, and the
\* document had been edited after the pass: the answer is the pass's.
C27_Witness ==
    /\ ServedAfterPass
    /\ web.req.tree = None
    /\ web.media = "html"
    /\ version = "v2"
    /\ web.resp.body = Transform("html", Extract("ms001", "p1", None, "default", "v1"))

\* ------------------------------------------------------------ failed saves

\* The step is the failure of the save_cache call of process p: an error of
\* mkdir, open, write or close ends the call.
SaveFails(p) ==
    /\ pc[p] \in {"save_open", "save_write", "save_close"}
    /\ nfaults' = nfaults + 1
    /\ sv'[p] = NoFrame

\* C28: when save_cache fails on a key that held a valid entry, the entry is
\* as it was before the call: a lookup of the key after the failure returns
\* the content stored before.
C28_FailedSaveKeeps ==
    [][\A p \in Procs :
          LET before == GetCacheRead(ctx[p].snap[sv[p].path]) IN
          (SaveFails(p) /\ ~before.raised /\ Truthy(before.res)) =>
              GetCacheRead(disk'[sv[p].path]) = before]_vars

\* ------------------------------------------------- answers on hit and miss

\* A request for a transformed media type has been answered from the cache,
\* and the request before it was for the same artifact, found it missing,
\* transformed the passage and stored the result.
HitAfterMiss ==
    /\ pc["web"] = "done"
    /\ web.kind = "passage"
    /\ web.media # DEFAULT_MEDIA_TYPE
    /\ useDiskCache
    /\ ctx["web"].reads = 1 /\ ctx["web"].tr = 0
    /\ last.kind = "request"
    /\ LET v == ValidateRequest(last.req) IN
          ViewKey(last.req, v.tree, v.media) = ViewKey(web.req, web.tree, web.media)
    /\ last.tr = 1 /\ last.writes = 1

BatchHasMedia(file) == ~NeedsMedia(GetCacheRead(file).res, FALSE)

\* The batch worker takes the base passage for present.
BatchHasBase(file) == ~NeedsBase(GetCacheRead(file).res, FALSE)

\* The read path takes a lookup for a hit ("if cached_content:").
ReadPathHit(file) == Truthy(GetCacheRead(file).res)

\* C30: whatever a cache file holds (nothing, a cut or corrupt envelope, an
\* envelope without content, with empty content, with content), if the lookup
\* returns at all, the batch worker takes a transformed artifact for present
\* exactly when the read path takes the lookup for a hit, and exactly when the
\* batch worker would take a base passage in that state for present.
C30_HitDecisionsAgree ==
    \A q \in AllPaths :
        ~GetCacheRead(disk[q]).raised =>
            /\ BatchHasMedia(disk[q]) = ReadPathHit(disk[q])
            /\ BatchHasMedia(disk[q]) = BatchHasBase(disk[q])

====
